---------------------------- MODULE Spec2Model ----------------------------
(***************************************************************************)
(* KPR Advisor (src/kpr2.py): the affordability arithmetic, the money      *)
(* parser and the Streamlit session of the chat stage.                     *)
(*                                                                         *)
(* Three specifications share the variables:                               *)
(*   Spec       the session: set-up form, chat renders, LLM call, reset    *)
(*   SpecCalc   the affordability snapshot (lines 247-268, 322-353)        *)
(*   SpecParse  parse_money applied to the text of a money field           *)
(*                                                                         *)
(* Numbers.  Python floats are modelled by exact rationals <<n, d>>,       *)
(* d > 0, in lowest terms.  One floating-point effect is kept because the  *)
(* code branches on it: a positive rate so small that 1.0 + r rounds to    *)
(* 1.0 (any annual rate below about 1e-13 percent).  Such a rate is the    *)
(* value Tiny: it is not zero, and adding it to one gives one.             *)
(***************************************************************************)
EXTENDS Integers, Sequences, FiniteSets, TLC

VARIABLES
    setup_complete,   \* st.session_state.setup_complete
    nama,             \* st.session_state["nama"]
    profile,          \* the numeric session keys written by the set-up form
    sys_prompt,       \* text of the sidebar text_area (widget state)
    model,            \* value of the sidebar selectbox (widget state)
    llm,              \* st.session_state.llm with _last_key/_last_model/_last_temp
    has_messages,     \* "messages" in st.session_state
    messages,         \* st.session_state.messages
    metrics,          \* the snapshot figures of the last chat render
    pc,               \* where the script is: "idle", "rerun" (st.rerun pending), "invoking"
    chat_visible,     \* the last run reached st.chat_input (line 411)
    error_shown,      \* st.error(f"Error: {e}") is on the page (line 436)
    submitted,        \* user texts submitted so far
    invoked,          \* calls of llm.invoke so far
    calc,             \* SpecCalc: inputs and results of one snapshot
    ptext,            \* SpecParse: text of a money field
    pmoney            \* SpecParse: what parse_money made of ptext

appvars == <<setup_complete, nama, profile, sys_prompt, model, llm, has_messages, messages,
             metrics, pc, chat_visible, error_shown, submitted, invoked>>
vars == <<setup_complete, nama, profile, sys_prompt, model, llm, has_messages, messages,
          metrics, pc, chat_visible, error_shown, submitted, invoked, calc, ptext, pmoney>>
appfixed == <<calc, ptext, pmoney>>   \* what the session leaves alone

-----------------------------------------------------------------------------
(* Bounds of the model *)

MaxMoney == 2      \* money amounts of SpecCalc range over -1..MaxMoney
MaxYears == 1      \* terms of SpecCalc range over -1..MaxYears
MaxLen == 3        \* longest text typed into a money field in SpecParse
MaxMsgs == 5       \* longest chat history of Spec
MaxTurns == 3      \* most user texts submitted in Spec

(* Program constants; ratios are kept in hundredths *)

DEFAULT_MAX_DSR == 60
DEFAULT_MAX_LTV == 95
DEFAULT_TEMPERATURE == 50
DEFAULT_MODEL == "gemini-2.5-flash"

-----------------------------------------------------------------------------
(* Rational arithmetic *)

Abs(x) == IF x < 0 THEN -x ELSE x

RECURSIVE GCD(_, _)
GCD(a, b) == IF b = 0 THEN a ELSE GCD(b, a % b)

Norm(n, d) ==
    LET g == GCD(Abs(n), Abs(d))
        s == IF d < 0 THEN -1 ELSE 1
    IN  <<s * (n \div g), s * (d \div g)>>

Q(i) == <<i, 1>>
Zero == <<0, 1>>
One == <<1, 1>>
Tiny == <<1, 0>>   \* a positive float r with 1.0 + r == 1.0

QAdd(a, b) == Norm(a[1] * b[2] + b[1] * a[2], a[2] * b[2])
QSub(a, b) == Norm(a[1] * b[2] - b[1] * a[2], a[2] * b[2])
QMul(a, b) ==
    LET x == Norm(a[1], b[2])
        y == Norm(b[1], a[2])
    IN  Norm(x[1] * y[1], x[2] * y[2])
QInv(a) == Norm(a[2], a[1])
QDiv(a, b) == QMul(a, QInv(b))

\* a <= b, by comparing integer parts and then the reciprocals of the remainders
RECURSIVE QLeq(_, _)
QLeq(a, b) ==
    LET qa == a[1] \div a[2]
        qb == b[1] \div b[2]
        ra == a[1] - qa * a[2]
        rb == b[1] - qb * b[2]
    IN  IF qa # qb THEN qa < qb
        ELSE IF ra = 0 THEN TRUE
        ELSE IF rb = 0 THEN FALSE
        ELSE QLeq(<<b[2], rb>>, <<a[2], ra>>)

QMax(a, b) == IF QLeq(a, b) THEN b ELSE a

RECURSIVE IPow(_, _)
IPow(i, k) == IF k = 0 THEN 1 ELSE i * IPow(i, k - 1)

\* a ** k for k >= 0; a is in lowest terms, and so is the result
QPowNat(a, k) == <<IPow(a[1], k), IPow(a[2], k)>>

\* base ** k for an integer k and a base that is not zero
QPow(a, k) == IF k >= 0 THEN QPowNat(a, k) ELSE QPowNat(QInv(a), -k)

-----------------------------------------------------------------------------
(* Results of a Python expression: a value, or an exception on its way up *)

Ok(v, b) == [exc |-> "none", val |-> v, branch |-> b]
Raise(e, b) == [exc |-> e, val |-> Zero, branch |-> b]

\* r = (annual_rate_pct / 100.0) / 12.0
MonthlyRate(annual_rate_pct) ==
    IF annual_rate_pct = Tiny THEN Tiny ELSE QDiv(QDiv(annual_rate_pct, Q(100)), Q(12))

\* 1 + r in floating point
OnePlus(r) == IF r = Tiny THEN One ELSE QAdd(One, r)


\* principal * r, the product with a rate (positive when both are)
MulRate(x, r) == IF r = Tiny THEN (IF x = Zero THEN Zero ELSE Tiny) ELSE QMul(x, r)

\* x / y as Python divides floats: a zero divisor raises
PyDiv(x, y, b) == IF y = Zero THEN Raise("ZeroDivisionError", b) ELSE Ok(QDiv(x, y), b)

\* x / r for a rate r # 0.  Against Tiny only x = 0 occurs (1 - 1 ** (-n) is 0)
DivRate(x, r, b) == IF r = Tiny THEN Ok(Zero, b) ELSE PyDiv(x, r, b)

\* try: ... except ZeroDivisionError: return 0.0
ExceptZeroDivision(x) == IF x.exc = "ZeroDivisionError" THEN Ok(Zero, "except") ELSE x

-----------------------------------------------------------------------------
(* monthly_payment, lines 247-257 *)

\* the function with the try/except left out: the ZeroDivisionError propagates
monthly_payment_uncaught(principal, annual_rate_pct, years) ==
    LET r == MonthlyRate(annual_rate_pct)
        n == years * 12
    IN  IF QLeq(principal, Zero) \/ years <= 0 THEN Ok(Zero, "guard")
        ELSE IF r = Zero THEN PyDiv(principal, Q(n), "linear")
        ELSE PyDiv(MulRate(principal, r), QSub(One, QPow(OnePlus(r), -n)), "annuity")

\* the function with the guard on years left out
monthly_payment_no_years_guard(principal, annual_rate_pct, years) ==
    LET r == MonthlyRate(annual_rate_pct)
        n == years * 12
    IN  IF QLeq(principal, Zero) THEN Ok(Zero, "guard")
        ELSE IF r = Zero THEN PyDiv(principal, Q(n), "linear")
        ELSE ExceptZeroDivision(
                 PyDiv(MulRate(principal, r), QSub(One, QPow(OnePlus(r), -n)), "annuity"))

monthly_payment(principal, annual_rate_pct, years) ==
    LET r == MonthlyRate(annual_rate_pct)
        n == years * 12
    IN  IF QLeq(principal, Zero) \/ years <= 0 THEN Ok(Zero, "guard")
        ELSE IF r = Zero THEN PyDiv(principal, Q(n), "linear")
        ELSE ExceptZeroDivision(
                 PyDiv(MulRate(principal, r), QSub(One, QPow(OnePlus(r), -n)), "annuity"))

(* max_principal_from_dsr, lines 259-268; dsr is a rational *)

max_principal_from_dsr(net_income, expenses, dsr, annual_rate_pct, years) ==
    LET capacity == QMax(Zero, QMul(Q(net_income - expenses), dsr))
        r == MonthlyRate(annual_rate_pct)
        n == years * 12
    IN  IF r = Zero THEN Ok(QMul(capacity, Q(n)), "linear")
        ELSE ExceptZeroDivision(
                 DivRate(QMul(capacity, QSub(One, QPow(OnePlus(r), -n))), r, "annuity"))

-----------------------------------------------------------------------------
(* The affordability snapshot, lines 322-353 *)

\* need_loan without the clamp at zero
need_loan_unclamped(harga, dp) == harga - dp

need_loan(harga, dp) == IF harga - dp > 0 THEN harga - dp ELSE 0

ltv(need, harga) == IF harga > 0 THEN Norm(need, harga) ELSE Zero

dsr_used(pay_est, gaji_bersih, pengeluaran) ==
    IF gaji_bersih - pengeluaran > 0
    THEN QDiv(pay_est, QMax(One, Q(gaji_bersih - pengeluaran)))
    ELSE Zero

\* dsr_flag without the test on the disposable income
dsr_flag_unguarded(used, max_dsr, gaji_bersih, pengeluaran) == QLeq(used, max_dsr)

dsr_flag(used, max_dsr, gaji_bersih, pengeluaran) ==
    IF gaji_bersih - pengeluaran > 0 THEN QLeq(used, max_dsr) ELSE FALSE

\* ltv_flag with the default for a zero price turned round
ltv_flag_default_false(ratio, max_ltv, harga) ==
    IF harga > 0 THEN QLeq(ratio, max_ltv) ELSE FALSE

ltv_flag(ratio, max_ltv, harga) == IF harga > 0 THEN QLeq(ratio, max_ltv) ELSE TRUE

Hundredths(h) == Norm(h, 100)

\* One run of lines 332-353 over the inputs of c.  An exception that leaves
\* monthly_payment or max_principal_from_dsr ends the script: exc names it and
\* the figures after it are not computed.
Evaluate(c) ==
    LET need == need_loan(c.harga, c.dp)
        ratio == ltv(need, c.harga)
        pay == monthly_payment(Q(need), c.bunga, c.tenor)
        maxp == max_principal_from_dsr(c.gaji_bersih, c.pengeluaran,
                                       Hundredths(c.max_dsr), c.bunga, c.tenor)
        raised == pay.exc # "none" \/ maxp.exc # "none"
        used == IF raised THEN Zero ELSE dsr_used(pay.val, c.gaji_bersih, c.pengeluaran)
    IN  [c EXCEPT !.done = TRUE,
                  !.exc = IF pay.exc # "none" THEN pay.exc ELSE maxp.exc,
                  !.need_loan = need,
                  !.ltv = ratio,
                  !.pay = pay,
                  !.max_principal = IF pay.exc # "none" THEN Ok(Zero, "none") ELSE maxp,
                  !.dsr_used = used,
                  !.dsr_flag = IF raised THEN FALSE
                               ELSE dsr_flag(used, Hundredths(c.max_dsr),
                                             c.gaji_bersih, c.pengeluaran),
                  !.ltv_flag = IF raised THEN FALSE
                               ELSE ltv_flag(ratio, Hundredths(c.max_ltv), c.harga)]

-----------------------------------------------------------------------------
(* SpecCalc: one field changes, the script runs again *)

Money == -1..MaxMoney
Years == -1..MaxYears
Rates == {Zero, Tiny, Q(1200)}         \* annual percent: 0, below 1e-13, 1200
DsrChoices == {10, DEFAULT_MAX_DSR, 70}   \* slider 0.10 .. 0.70
LtvChoices == {50, DEFAULT_MAX_LTV, 100}  \* slider 0.5 .. 1.0

Unevaluated(c) ==
    [c EXCEPT !.done = FALSE, !.exc = "none", !.need_loan = 0, !.ltv = Zero,
              !.pay = Ok(Zero, "none"), !.max_principal = Ok(Zero, "none"),
              !.dsr_used = Zero, !.dsr_flag = FALSE, !.ltv_flag = FALSE]

\* the values session_state.get falls back to, lines 323-330
CalcInit ==
    [gaji_bersih |-> 0, pengeluaran |-> 0, harga |-> 0, dp |-> 0, tenor |-> 1,
     bunga |-> Zero, max_dsr |-> DEFAULT_MAX_DSR, max_ltv |-> DEFAULT_MAX_LTV,
     done |-> FALSE, exc |-> "none", need_loan |-> 0, ltv |-> Zero,
     pay |-> Ok(Zero, "none"), max_principal |-> Ok(Zero, "none"),
     dsr_used |-> Zero, dsr_flag |-> FALSE, ltv_flag |-> FALSE]

calcfixed == <<appvars, ptext, pmoney>>   \* what SpecCalc leaves alone

CalcSetMoney ==
    /\ \E f \in {"gaji_bersih", "pengeluaran", "harga", "dp"}, v \in Money :
           calc' = Unevaluated([calc EXCEPT ![f] = v])
    /\ UNCHANGED calcfixed

CalcSetTerm ==
    /\ \E y \in Years : calc' = Unevaluated([calc EXCEPT !.tenor = y])
    /\ UNCHANGED calcfixed

CalcSetRate ==
    /\ \E b \in Rates : calc' = Unevaluated([calc EXCEPT !.bunga = b])
    /\ UNCHANGED calcfixed

CalcSetPolicy ==
    /\ \E d \in DsrChoices, l \in LtvChoices :
           calc' = Unevaluated([calc EXCEPT !.max_dsr = d, !.max_ltv = l])
    /\ UNCHANGED calcfixed

CalcEvaluate ==
    /\ ~calc.done
    /\ calc' = Evaluate(calc)
    /\ UNCHANGED calcfixed

CalcNext ==
    \/ CalcSetMoney
    \/ CalcSetTerm
    \/ CalcSetRate
    \/ CalcSetPolicy
    \/ CalcEvaluate

-----------------------------------------------------------------------------
(* parse_money, lines 96-117.  A text is a sequence of characters. *)

DigitChars == {"0", "1", "2"}
Separators == {",", "."}
Alphabet == DigitChars \cup Separators \cup {" ", "-", "+", "_", "x"}

DigitValue(c) == IF c = "0" THEN 0 ELSE IF c = "1" THEN 1 ELSE 2

RECURSIVE Remove(_, _)
\* s.replace(c, "") for every c of chars
Remove(s, chars) ==
    IF s = <<>> THEN <<>>
    ELSE IF Head(s) \in chars THEN Remove(Tail(s), chars)
    ELSE <<Head(s)>> \o Remove(Tail(s), chars)

RECURSIVE LStrip(_)
LStrip(s) == IF s # <<>> /\ Head(s) = " " THEN LStrip(Tail(s)) ELSE s

RECURSIVE RStrip(_)
RStrip(s) ==
    IF s # <<>> /\ s[Len(s)] = " " THEN RStrip(SubSeq(s, 1, Len(s) - 1)) ELSE s

\* str.strip()
Strip(s) == RStrip(LStrip(s))

RECURSIVE DigitsValue(_, _)
\* the digits of s read left to right, underscores skipped
DigitsValue(s, acc) ==
    IF s = <<>> THEN acc
    ELSE IF Head(s) = "_" THEN DigitsValue(Tail(s), acc)
    ELSE DigitsValue(Tail(s), 10 * acc + DigitValue(Head(s)))

\* int(s): an optional sign, then digits, single underscores allowed between
\* digits; anything else is a ValueError
PyInt(s) ==
    LET signed == s # <<>> /\ Head(s) \in {"-", "+"}
        body == IF signed THEN Tail(s) ELSE s
        wellformed ==
            /\ body # <<>>
            /\ \A i \in 1..Len(body) : body[i] \in DigitChars \cup {"_"}
            /\ body[1] # "_"
            /\ body[Len(body)] # "_"
            /\ \A i \in 1..(Len(body) - 1) : ~(body[i] = "_" /\ body[i + 1] = "_")
    IN  IF ~wellformed THEN [exc |-> "ValueError", val |-> 0]
        ELSE [exc |-> "none",
              val |-> IF signed /\ Head(s) = "-" THEN -DigitsValue(body, 0)
                      ELSE DigitsValue(body, 0)]

\* float(i) is i itself below 2^53, which the texts of the model stay under
PyFloat(i) == i

\* except Exception: return 0.0
ExceptAny(x) == IF x.exc # "none" THEN [exc |-> "none", val |-> 0] ELSE x

\* parse_money that strips the commas and leaves the dots in
parse_money_keeps_dots(text) ==
    LET s1 == Strip(text)
        s3 == Remove(Remove(s1, {" "}), {","})
    IN  IF s1 = <<>> THEN [exc |-> "none", val |-> 0]
        ELSE IF s3 = <<>> \/ s3 = <<"-">> THEN [exc |-> "none", val |-> 0]
        ELSE ExceptAny(LET i == PyInt(s3) IN [i EXCEPT !.val = PyFloat(i.val)])

parse_money(text) ==
    LET s1 == Strip(text)
        s2 == Remove(s1, {" "})
        s3 == Remove(Remove(s2, {","}), {"."})
    IN  IF s1 = <<>> THEN [exc |-> "none", val |-> 0]
        ELSE IF s3 = <<>> \/ s3 = <<"-">> THEN [exc |-> "none", val |-> 0]
        ELSE ExceptAny(LET i == PyInt(s3) IN [i EXCEPT !.val = PyFloat(i.val)])

(* SpecParse: the user types into a money field; every change reruns the
   script, which parses the text of the field (lines 153-155) *)

ParseType ==
    /\ \E c \in Alphabet :
           /\ Len(ptext) < MaxLen
           /\ ptext' = Append(ptext, c)
           /\ pmoney' = parse_money(ptext')
    /\ UNCHANGED <<appvars, calc>>

ParseErase ==
    /\ ptext # <<>>
    /\ ptext' = SubSeq(ptext, 1, Len(ptext) - 1)
    /\ pmoney' = parse_money(ptext')
    /\ UNCHANGED <<appvars, calc>>

ParseNext ==
    \/ ParseType
    \/ ParseErase

-----------------------------------------------------------------------------
(* The session.  A run of the script is one step, except that llm.invoke
   (line 431) takes time: the run that submits a user text stops at the call
   (pc = "invoking") and ends with the call's return or exception.            *)

DefaultTenor == 15                         \* line 199
DefaultRate == 10                          \* line 200
MaxRate == 25                              \* max_val of the rate field, line 226
TenorChoices == {1, DefaultTenor}          \* number_input, 1 .. 30
ParsedRates == {-5, DefaultRate, 30}       \* what parse_decimal hands to the clamp
AppMoneyTexts == {<<"0">>, <<"2", ",", "0">>}
PolicyChoices == {<<DEFAULT_MAX_DSR, DEFAULT_MAX_LTV>>, <<10, 100>>}   \* the two sliders
Names == {"", "Ana"}
SysPrompts == {<<>>, <<" ">>, <<"x">>}     \* the sidebar text_area
Models == {DEFAULT_MODEL, "gemini-1.5-pro"}
UserTexts == {"q"}                         \* st.chat_input
AiTexts == {"a"}                           \* result.content

NoMetrics == [shown |-> FALSE, need_loan |-> 0, ltv |-> Zero, ltv_flag |-> FALSE]
NoLlm == [init |-> FALSE, key |-> FALSE, model |-> "", temp |-> 0]

\* the figures of lines 332-333 and 353 as the page shows them.  The instalment
\* figures need (1 + r) ** n for the form's rates and terms, which no 32-bit
\* integer holds exactly; they are a function of profile, studied in SpecCalc.
Snapshot(p) ==
    LET need == need_loan(p.harga_properti, p.dp)
        ratio == ltv(need, p.harga_properti)
    IN  [shown |-> TRUE, need_loan |-> need, ltv |-> ratio,
         ltv_flag |-> ltv_flag(ratio, Hundredths(p.max_ltv), p.harga_properti)]

\* banker_context, lines 363-393: the profile and its figures put into a text
BankerContext(nm, p) == <<"banker", IF nm = "" THEN "Nasabah" ELSE nm, p>>

SystemMessage(c) == [role |-> "system", content |-> c]
UserMessage(t) == [role |-> "user", content |-> <<"text", t>>]
AssistantMessage(t) == [role |-> "assistant", content |-> <<"text", t>>]

\* ensure_messages_initialized without the test for an existing history
ensure_messages_always(present, msgs, sp, banker_context) ==
    msgs \o <<SystemMessage(banker_context)>>
         \o (IF Strip(sp) # <<>> THEN <<SystemMessage(<<"text", Strip(sp)>>)>> ELSE <<>>)

\* ensure_messages_initialized, lines 270-276: the history after the call
ensure_messages_initialized(present, msgs, sp, banker_context) ==
    IF present THEN msgs
    ELSE <<SystemMessage(banker_context)>>
         \o (IF Strip(sp) # <<>> THEN <<SystemMessage(<<"text", Strip(sp)>>)>> ELSE <<>>)

\* percent_text_input's clamp, lines 169-172
Clamp(parsed, min_val, max_val) ==
    IF parsed < min_val THEN min_val ELSE IF parsed > max_val THEN max_val ELSE parsed

AppInit ==
    /\ setup_complete = FALSE
    /\ nama = ""
    /\ profile = [gaji_bersih |-> 0, pengeluaran |-> 0, harga_properti |-> 0, dp |-> 0,
                  tenor_tahun |-> DefaultTenor, bunga_tahunan |-> DefaultRate,
                  max_dsr |-> DEFAULT_MAX_DSR, max_ltv |-> DEFAULT_MAX_LTV]
    /\ sys_prompt = <<>>
    /\ model = DEFAULT_MODEL
    /\ llm = NoLlm
    /\ has_messages = FALSE
    /\ messages = <<>>
    /\ metrics = NoMetrics
    /\ pc = "idle"
    /\ chat_visible = FALSE
    /\ error_shown = FALSE
    /\ submitted = 0
    /\ invoked = 0

(* Lines 278-436: the chat stage of one run.  reset_btn and user_text are the
   widget events of the run, mdl the value of the selectbox, key what
   resolve_google_api_key finds, sp the text of the text_area.               *)
ChatRun(reset_btn, user_text, key, mdl, sp) ==
    IF ~key
    THEN \* lines 294-301: st.error and st.stop
         /\ chat_visible' = FALSE
         /\ metrics' = NoMetrics
         /\ error_shown' = FALSE
         /\ pc' = "idle"
         /\ UNCHANGED <<llm, has_messages, messages, submitted, invoked>>
    ELSE \* lines 304-314: needs_reinit (the temperature slider stays at its default)
         /\ llm' = IF ~llm.init \/ ~llm.key \/ llm.model # mdl
                       \/ llm.temp # DEFAULT_TEMPERATURE
                   THEN [init |-> TRUE, key |-> TRUE, model |-> mdl,
                         temp |-> DEFAULT_TEMPERATURE]
                   ELSE llm
         /\ error_shown' = FALSE
         /\ IF reset_btn
            THEN \* lines 317-319: pop and st.rerun()
                 /\ has_messages' = FALSE
                 /\ messages' = <<>>
                 /\ pc' = "rerun"
                 /\ metrics' = NoMetrics
                 /\ chat_visible' = FALSE
                 /\ UNCHANGED <<submitted, invoked>>
            ELSE LET ensured == ensure_messages_initialized(has_messages, messages, sp,
                                                            BankerContext(nama, profile))
                 IN  /\ metrics' = Snapshot(profile)
                     /\ has_messages' = TRUE
                     /\ chat_visible' = TRUE
                     /\ IF user_text # ""
                        THEN /\ messages' = Append(ensured, UserMessage(user_text))
                             /\ submitted' = submitted + 1
                             /\ invoked' = invoked + 1
                             /\ pc' = "invoking"
                        ELSE /\ messages' = ensured
                             /\ pc' = "idle"
                             /\ UNCHANGED <<submitted, invoked>>

(* The set-up form, lines 190-242: one widget changes, the script runs *)

SetupIdle == ~setup_complete /\ pc = "idle"

SetupEditNama ==
    /\ SetupIdle
    /\ \E nm \in Names : nama' = nm
    /\ UNCHANGED <<setup_complete, profile, sys_prompt, model, llm, has_messages, messages,
                   metrics, pc, chat_visible, error_shown, submitted, invoked>>
    /\ UNCHANGED appfixed

\* money_text_input, lines 143-156
SetupEditMoney ==
    /\ SetupIdle
    /\ \E f \in {"gaji_bersih", "pengeluaran", "harga_properti", "dp"},
          user_str \in AppMoneyTexts :
           profile' = [profile EXCEPT ![f] = parse_money(user_str).val]
    /\ UNCHANGED <<setup_complete, nama, sys_prompt, model, llm, has_messages, messages,
                   metrics, pc, chat_visible, error_shown, submitted, invoked>>
    /\ UNCHANGED appfixed

SetupEditTenor ==
    /\ SetupIdle
    /\ \E y \in TenorChoices : profile' = [profile EXCEPT !.tenor_tahun = y]
    /\ UNCHANGED <<setup_complete, nama, sys_prompt, model, llm, has_messages, messages,
                   metrics, pc, chat_visible, error_shown, submitted, invoked>>
    /\ UNCHANGED appfixed

\* percent_text_input, lines 158-174
SetupEditRate ==
    /\ SetupIdle
    /\ \E parsed \in ParsedRates :
           profile' = [profile EXCEPT !.bunga_tahunan = Clamp(parsed, 0, MaxRate)]
    /\ UNCHANGED <<setup_complete, nama, sys_prompt, model, llm, has_messages, messages,
                   metrics, pc, chat_visible, error_shown, submitted, invoked>>
    /\ UNCHANGED appfixed

SetupEditPolicy ==
    /\ SetupIdle
    /\ \E pol \in PolicyChoices :
           profile' = [profile EXCEPT !.max_dsr = pol[1], !.max_ltv = pol[2]]
    /\ UNCHANGED <<setup_complete, nama, sys_prompt, model, llm, has_messages, messages,
                   metrics, pc, chat_visible, error_shown, submitted, invoked>>
    /\ UNCHANGED appfixed

\* "Mulai Konsultasi": complete_setup (lines 187-188) runs, then the script,
\* which skips the form and goes through the chat stage
ClickStart ==
    /\ SetupIdle
    /\ setup_complete' = TRUE
    /\ \E key \in BOOLEAN : ChatRun(FALSE, "", key, model, sys_prompt)
    /\ UNCHANGED <<nama, profile, sys_prompt, model>>
    /\ UNCHANGED appfixed

(* The chat stage *)

ChatIdle == setup_complete /\ pc = "idle"

\* a sidebar widget changes (system prompt, model), or the page is reloaded
ChatEditSidebar ==
    /\ ChatIdle
    /\ \E sp \in SysPrompts, key \in BOOLEAN, mdl \in Models :
           /\ sys_prompt' = sp
           /\ model' = mdl
           /\ ChatRun(FALSE, "", key, mdl, sp)
    /\ UNCHANGED <<setup_complete, nama, profile>>
    /\ UNCHANGED appfixed

\* "Reset Percakapan"
ChatClickReset ==
    /\ ChatIdle
    /\ \E key \in BOOLEAN : ChatRun(TRUE, "", key, model, sys_prompt)
    /\ UNCHANGED <<setup_complete, nama, profile, sys_prompt, model>>
    /\ UNCHANGED appfixed

\* the run st.rerun() asked for
ChatRerun ==
    /\ setup_complete
    /\ pc = "rerun"
    /\ \E key \in BOOLEAN : ChatRun(FALSE, "", key, model, sys_prompt)
    /\ UNCHANGED <<setup_complete, nama, profile, sys_prompt, model>>
    /\ UNCHANGED appfixed

\* the user sends a text through st.chat_input
ChatSubmit ==
    /\ ChatIdle
    /\ chat_visible
    /\ submitted < MaxTurns
    /\ Len(messages) + 2 <= MaxMsgs
    /\ \E user_text \in UserTexts, key \in BOOLEAN : ChatRun(FALSE, user_text, key, model, sys_prompt)
    /\ UNCHANGED <<setup_complete, nama, profile, sys_prompt, model>>
    /\ UNCHANGED appfixed

\* lines 431-434: invoke returns
LLMReturn ==
    /\ pc = "invoking"
    /\ \E ai_text \in AiTexts : messages' = Append(messages, AssistantMessage(ai_text))
    /\ pc' = "idle"
    /\ UNCHANGED <<setup_complete, nama, profile, sys_prompt, model, llm, has_messages, metrics,
                   chat_visible, error_shown, submitted, invoked>>
    /\ UNCHANGED appfixed

\* the handler calling invoke a second time
LLMRaise_retry ==
    /\ pc = "invoking"
    /\ invoked' = invoked + 1
    /\ error_shown' = TRUE
    /\ pc' = "idle"
    /\ UNCHANGED <<setup_complete, nama, profile, sys_prompt, model, llm, has_messages, messages,
                   metrics, chat_visible, submitted>>
    /\ UNCHANGED appfixed

\* lines 435-436: invoke raises; st.error shows the exception
LLMRaise ==
    /\ pc = "invoking"
    /\ error_shown' = TRUE
    /\ pc' = "idle"
    /\ UNCHANGED <<setup_complete, nama, profile, sys_prompt, model, llm, has_messages, messages,
                   metrics, chat_visible, submitted, invoked>>
    /\ UNCHANGED appfixed

Next ==
    \/ SetupEditNama
    \/ SetupEditMoney
    \/ SetupEditTenor
    \/ SetupEditRate
    \/ SetupEditPolicy
    \/ ClickStart
    \/ ChatEditSidebar
    \/ ChatClickReset
    \/ ChatRerun
    \/ ChatSubmit
    \/ LLMReturn
    \/ LLMRaise

-----------------------------------------------------------------------------
(* The specifications *)

Init ==
    /\ AppInit
    /\ calc = CalcInit
    /\ ptext = <<>>
    /\ pmoney = parse_money(<<>>)

Spec == Init /\ [][Next]_vars
SpecCalc == Init /\ [][CalcNext]_vars
SpecParse == Init /\ [][ParseNext]_vars

-----------------------------------------------------------------------------
(* Properties of the affordability snapshot, checked under SpecCalc *)

Disposable == calc.gaji_bersih - calc.pengeluaran
Capacity == QMax(Zero, QMul(Q(Disposable), Hundredths(calc.max_dsr)))

\* C1 as stated: after an evaluation loan_need is max(0, property_price -
\* down_payment), it is never negative, and it is at most property_price
\* whenever down_payment >= 0.
C1_LoanNeedAsStated ==
    calc.done =>
        /\ calc.need_loan = (IF calc.harga > calc.dp THEN calc.harga - calc.dp ELSE 0)
        /\ calc.need_loan >= 0
        /\ (calc.dp >= 0 => calc.need_loan <= calc.harga)

\* C1, amended: after an evaluation loan_need is max(0, property_price -
\* down_payment), it is never negative, and it is at most property_price
\* whenever down_payment >= 0 and property_price >= 0.
C1_LoanNeed ==
    calc.done =>
        /\ calc.need_loan = (IF calc.harga > calc.dp THEN calc.harga - calc.dp ELSE 0)
        /\ calc.need_loan >= 0
        /\ (calc.dp >= 0 /\ calc.harga >= 0 => calc.need_loan <= calc.harga)

C1_Witness ==
    /\ calc.done
    /\ calc.harga > 0
    /\ calc.dp > calc.harga
    /\ calc.need_loan = 0

\* C2: dsr_compliant is false whenever the disposable income is <= 0, whatever
\* the payment, rate, term and max_dsr; when it is > 0, dsr_used is the payment
\* over max(1, disposable income) and dsr_compliant is dsr_used <= max_dsr
\* (the payment is at most max_dsr times the disposable income).
C2_DsrCompliance ==
    calc.done =>
        /\ Disposable <= 0 => ~calc.dsr_flag /\ calc.dsr_used = Zero
        /\ Disposable > 0 =>
              /\ QMul(calc.dsr_used, Q(Disposable)) = calc.pay.val
              /\ calc.dsr_flag = QLeq(calc.pay.val,
                                      QMul(Hundredths(calc.max_dsr), Q(Disposable)))

C2_Witness ==
    /\ calc.done
    /\ Disposable <= 0
    /\ calc.pay.val # Zero
    /\ ~calc.dsr_flag

\* C3: ltv_compliant is true when property_price = 0 whatever the other inputs;
\* when property_price > 0, loan_to_value is loan_need / property_price and
\* ltv_compliant is loan_to_value <= max_ltv.
C3_LtvCompliance ==
    calc.done =>
        /\ calc.harga = 0 => calc.ltv_flag
        /\ calc.harga > 0 =>
              /\ calc.ltv[1] * calc.harga = calc.need_loan * calc.ltv[2]
              /\ calc.ltv_flag = (calc.need_loan * 100 <= calc.max_ltv * calc.harga)

C3_Witness ==
    /\ calc.done
    /\ calc.harga = 0
    /\ calc.dp > 0
    /\ Disposable < 0
    /\ calc.ltv_flag

\* C4: the evaluation never raises, for zero, equal and inverted inputs alike:
\* an all-zero profile, down_payment > property_price, expenses > income, a
\* zero rate and a zero term give zero figures and the false/true defaults, and
\* a zero divisor in the annuity formula is caught and gives a payment of 0.
C4_NeverRaises ==
    calc.done =>
        /\ calc.exc = "none" /\ calc.pay.exc = "none" /\ calc.max_principal.exc = "none"
        /\ (calc.gaji_bersih = 0 /\ calc.pengeluaran = 0 /\ calc.harga = 0 /\ calc.dp = 0) =>
              /\ calc.need_loan = 0 /\ calc.ltv = Zero /\ calc.pay.val = Zero
              /\ calc.max_principal.val = Zero /\ calc.dsr_used = Zero
              /\ ~calc.dsr_flag /\ calc.ltv_flag
        /\ calc.dp > calc.harga =>
              calc.need_loan = 0 /\ calc.ltv = Zero /\ calc.pay.val = Zero /\ calc.ltv_flag
        /\ calc.pengeluaran > calc.gaji_bersih =>
              calc.dsr_used = Zero /\ ~calc.dsr_flag /\ calc.max_principal.val = Zero
        /\ calc.tenor = 0 => calc.pay.val = Zero /\ calc.max_principal.val = Zero
        /\ (calc.bunga = Tiny /\ calc.need_loan > 0 /\ calc.tenor > 0) =>
              calc.pay.branch = "except" /\ calc.pay.val = Zero

C4_Witness ==
    /\ calc.done
    /\ calc.bunga = Tiny
    /\ calc.need_loan > 0
    /\ calc.tenor > 0
    /\ calc.pay.branch = "except"

\* C5: monthly_payment returns 0 whenever principal <= 0 or the term is <= 0,
\* at every rate, zero included, and it returns before the month count is
\* divided by.
C5_ZeroPayment ==
    calc.done =>
        /\ (calc.need_loan <= 0 \/ calc.tenor <= 0) => calc.pay = Ok(Zero, "guard")
        /\ \A p \in Money, y \in Years :
              (p <= 0 \/ y <= 0) => monthly_payment(Q(p), calc.bunga, y) = Ok(Zero, "guard")

C5_Witness ==
    /\ calc.done
    /\ calc.tenor = 0
    /\ calc.need_loan > 0
    /\ calc.bunga = Zero
    /\ calc.pay = Ok(Zero, "guard")

\* C6: round trip: the principal max_principal_from_dsr returns, paid back at
\* the same rate and term, costs the capacity max(0, (income - expenses) * dsr)
\* a month.  Stated for the terms the form allows (years >= 1).
C6_RoundTrip ==
    (calc.done /\ calc.tenor >= 1) =>
        monthly_payment(calc.max_principal.val, calc.bunga, calc.tenor).val = Capacity

\* the order of the rates: 0 < Tiny < every other positive rate
RateLeq(a, b) ==
    IF a = Tiny THEN b # Zero ELSE IF b = Tiny THEN a = Zero ELSE QLeq(a, b)

\* C7: for principal >= 0, rate >= 0 and a term > 0, monthly_payment is never
\* negative and does not fall when the principal grows or when the rate grows,
\* the step from the zero-rate branch to the annuity branch included.
C7_Monotone ==
    (calc.done /\ calc.tenor > 0) =>
        /\ QLeq(Zero, calc.pay.val)
        /\ \A p \in 0..MaxMoney :
              p >= calc.need_loan =>
                  QLeq(calc.pay.val, monthly_payment(Q(p), calc.bunga, calc.tenor).val)
        /\ \A b \in Rates :
              RateLeq(calc.bunga, b) =>
                  QLeq(calc.pay.val, monthly_payment(Q(calc.need_loan), b, calc.tenor).val)

-----------------------------------------------------------------------------
(* Properties of parse_money, checked under SpecParse *)

\* the text without its spaces and separators
Ungrouped(t) == SelectSeq(t, LAMBDA c : c \notin Separators \cup {" "})

IsAmount(d) == d # <<>> /\ \A i \in 1..Len(d) : d[i] \in DigitChars

RECURSIVE PlaceSum(_, _)
\* the amount a digit string writes: the sum of digit * 10^place
PlaceSum(d, i) ==
    IF i > Len(d) THEN 0
    ELSE DigitValue(d[i]) * IPow(10, Len(d) - i) + PlaceSum(d, i + 1)

-----------------------------------------------------------------------------
(* Properties of the session, checked under Spec *)

Last(m) == m[Len(m)]

\* C9: when llm.invoke fails in a chat turn the error is shown, invoke is not
\* called again (at most one call per submitted text), the profile and the
\* figures on the page stay as they were, and no assistant message is added.
C9_LlmFailure ==
    /\ [](invoked <= submitted)
    /\ [][(pc = "invoking" /\ pc' # "invoking") =>
            \/ /\ error_shown'
               /\ pc' = "idle"
               /\ messages' = messages
               /\ has_messages' = has_messages
               /\ profile' = profile
               /\ nama' = nama
               /\ metrics' = metrics
               /\ invoked' = invoked
            \/ /\ ~error_shown'
               /\ messages' = Append(messages, Last(messages'))
               /\ Last(messages').role = "assistant"]_vars

C9_Witness ==
    /\ error_shown
    /\ pc = "idle"
    /\ invoked = 2
    /\ metrics.shown
    /\ metrics.need_loan > 0
    /\ Len(messages) >= 4
    /\ Last(messages).role = "user"

SystemCount(m) == Cardinality({i \in 1..Len(m) : m[i].role = "system"})

\* system messages first, the banker context before the extra prompt, at most
\* two of them; an assistant message only right behind a user message
ShapeOk(m) ==
    /\ SystemCount(m) \in {1, 2}
    /\ \A i \in 1..Len(m) : m[i].role = "system" <=> i <= SystemCount(m)
    /\ m[1].content[1] = "banker"
    /\ SystemCount(m) = 2 => m[2].content[1] = "text"
    /\ \A i \in 1..Len(m) : m[i].role = "assistant" => i > 1 /\ m[i - 1].role = "user"

\* C10: the chat history keeps its shape through renders, chat turns, LLM
\* results and resets: the system messages are a prefix of at most two (banker
\* context, then the extra system prompt), written when the history is created
\* and never after; every assistant message follows a user message; a reset
\* removes the whole history and the next render builds the prefix from the
\* context of that render; setup_complete, once true, stays true.
C10_HistoryShape ==
    /\ [](IF has_messages THEN ShapeOk(messages) ELSE messages = <<>>)
    /\ [][(has_messages /\ has_messages') =>
            /\ Len(messages') >= Len(messages)
            /\ SubSeq(messages', 1, Len(messages)) = messages
            /\ SystemCount(messages') = SystemCount(messages)]_vars
    /\ [][(~has_messages /\ has_messages') =>
            /\ messages'[1] = SystemMessage(BankerContext(nama', profile'))
            /\ Len(messages') = (IF Strip(sys_prompt') = <<>> THEN 1 ELSE 2)
            /\ Len(messages') = 2 =>
                  messages'[2] = SystemMessage(<<"text", Strip(sys_prompt')>>)]_vars
    /\ [][(has_messages /\ ~has_messages') => messages' = <<>> /\ pc' = "rerun"]_vars
    /\ [][setup_complete => setup_complete']_vars

C10_Witness ==
    /\ has_messages
    /\ submitted > 0
    /\ Len(messages) = 2
    /\ messages[2] = SystemMessage(<<"text", <<"x">>>>)

=============================================================================
